---- MODULE Spec2Model ----
(***************************************************************************)
(* Model of proxyServer/live555ProxyServer.cpp: the main program of the    *)
(* RTSP proxy server.  main() is a straight-line program; every action     *)
(* below is one step of it, and pc is the position of control.  Strings    *)
(* are sequences of one-character strings; a C string read past its last   *)
(* character yields the terminator NUL.  Everything the program does to    *)
(* the outside world (output, engine calls, exit) is appended to trace.    *)
(***************************************************************************)
EXTENDS Integers, Sequences, FiniteSets, TLC

VARIABLES
    args,               \* the argument array the process was started with (never written)
    argv,               \* main's argv, as its offset into args (++argv adds 1)
    argc,               \* main's argc
    disk,               \* what opening the definition file yields: NoFile or File(characters)
    pc,                 \* position of control in main
    verbosityLevel,     \* global, line 30
    rtspServerPortNum,  \* global, line 32 (portNumBits: 16 bits, unsigned)
    rtspServer,         \* local of main, line 122: NULL or a server handle
    input,              \* std::ifstream of line 142
    line,               \* std::string of line 146
    url,                \* std::string of line 159
    name,               \* std::string of line 160
    sms,                \* ServerMediaSession* of line 164
    lineNo,             \* number of lines std::getline has delivered so far
    trace,              \* every output, engine call and exit so far, in order
    exitStatus          \* "running", "exit(1)" or "abort"

vars == <<args, argv, argc, disk, pc, verbosityLevel, rtspServerPortNum, rtspServer, input,
          line, url, name, sms, lineNo, trace, exitStatus>>

-----------------------------------------------------------------------------
(* Bounds of the checked inputs. *)

MaxArgs == 3

MaxFileLen == 4

-----------------------------------------------------------------------------
(* Values. *)

\* A null RTSPServer*: no server.
NULL == [bound |-> FALSE, port |-> 0]

\* The handle RTSPServer::createNew returns when it binds the port.
Server(port) == [bound |-> TRUE, port |-> port]

\* The value of sms before line 164 assigns it.
NoSession == [server |-> NULL, url |-> <<>>, name |-> <<>>, verbosity |-> 0, lineNo |-> 0]

NUL == "NUL"

\* A path that cannot be opened, and a file holding the characters c.
NoFile == [exists |-> FALSE, content |-> <<>>]

File(c) == [exists |-> TRUE, content |-> c]

\* portNumBits is a 16-bit unsigned integer: values are kept modulo PortMod.
PortMod == 65536

\* std::string::npos, the largest size_t.  size_t is modelled 16 bits wide;
\* every string of the model is far shorter, so only the wrap of npos + 1 matters.
npos == 65535

DefaultPort == 554

Digits == <<"0", "1", "2", "3", "4", "5", "6", "7", "8", "9">>

IsDigit(c) == \E i \in 1..10 : Digits[i] = c

DigitVal(c) == (CHOOSE i \in 1..10 : Digits[i] = c) - 1

IsSpace(c) == c \in {" ", "\t", "\n"}

Min(a, b) == IF a < b THEN a ELSE b

\* s[i] of a C string (0-based); the terminator sits at index Len(s).
CharAt(s, i) == IF i < Len(s) THEN s[i + 1] ELSE NUL

-----------------------------------------------------------------------------
(* Library functions the program calls, as they compute. *)

RECURSIVE SkipSpaces(_)
SkipSpaces(s) ==
    IF s # <<>> /\ IsSpace(Head(s)) THEN SkipSpaces(Tail(s)) ELSE s

RECURSIVE ScanDigits(_, _, _)
\* Longest run of digits at the front of s, accumulated in 16 bits.
ScanDigits(s, acc, n) ==
    IF s # <<>> /\ IsDigit(Head(s))
    THEN ScanDigits(Tail(s), (acc * 10 + DigitVal(Head(s))) % PortMod, n + 1)
    ELSE [value |-> acc, ndigits |-> n]

\* sscanf(s, "%hu", &x): skips white space, takes an optional sign and the
\* longest run of digits, and stores the value in an unsigned short.  The
\* result is the number of conversions (1), 0 on a matching failure, or EOF
\* (-1) when the input ends before any conversion.  Characters after the
\* digits are left unread.
sscanf_hu(s) ==
    LET t == SkipSpaces(s)
        neg == t # <<>> /\ Head(t) = "-"
        u == IF t # <<>> /\ Head(t) \in {"+", "-"} THEN Tail(t) ELSE t
        d == ScanDigits(u, 0, 0)
    IN  IF t = <<>> THEN [count |-> -1, value |-> 0]
        ELSE IF d.ndigits = 0 THEN [count |-> 0, value |-> 0]
        ELSE [count |-> 1,
              value |-> IF neg THEN (PortMod - d.value) % PortMod ELSE d.value]

\* std::string::find(" "): index of the first occurrence, or npos.
find(s, c) ==
    IF \E i \in 1..Len(s) : s[i] = c
    THEN (CHOOSE i \in 1..Len(s) : s[i] = c /\ \A j \in 1..(i - 1) : s[j] # c) - 1
    ELSE npos

\* std::string::substr(pos, n), defined for pos <= size().
substr(s, pos, n) == SubSeq(s, pos + 1, pos + Min(n, Len(s) - pos))

\* std::getline(input, line) on the unread characters buf: the line up to
\* the first newline, and what is left after that newline.
getlineLine(buf) == substr(buf, 0, find(buf, "\n"))

getlineRest(buf) ==
    IF find(buf, "\n") = npos THEN <<>> ELSE substr(buf, find(buf, "\n") + 1, npos)

\* line.find(" ") of line 158.
SeparatorPos(l) == find(l, " ")

\* NameStart without the wrap of npos + 1: past the end when no separator is found.
NameStartClamped(l) ==
    IF SeparatorPos(l) = npos THEN Len(l) ELSE SeparatorPos(l) + 1

\* The argument of substr in line 160: pos + 1 in size_t arithmetic.
NameStart(l) == (SeparatorPos(l) + 1) % (npos + 1)

-----------------------------------------------------------------------------
(* Inputs. *)

ProgName == <<"a">>

Tokens ==
    { <<"-", "v">>, <<"-", "V">>, <<"-", "p">>, <<"-", "x">>, <<"-">>,
      <<"7">>, <<"0">>, <<"7", "x">>, <<"6", "5", "5", "3", "6">>, <<"f">> }

FileChars == {"u", "n", " ", "\t", "#", "\n"}

SeqsUpTo(S, n) == UNION {[1..k -> S] : k \in 0..n}

ArgVectors == SeqsUpTo(Tokens, MaxArgs)

SampleArgVectors == { <<<<"f">>>>, <<<<"-", "p">>, <<"7">>, <<"f">>>> }

Files == SeqsUpTo(FileChars, MaxFileLen)

\* argv[i], for 0 <= i < argc.
Arg(i) == args[argv + i + 1]

-----------------------------------------------------------------------------
(* The program. *)

Init ==
    /\ \E a \in ArgVectors \cup SampleArgVectors :
         /\ args = <<ProgName>> \o a
         /\ \/ disk = NoFile
            \/ a \in SampleArgVectors /\ \E c \in Files : disk = File(c)
    /\ argv = 0
    /\ argc = Len(args)
    /\ pc = "start"
    /\ verbosityLevel = 0
    /\ rtspServerPortNum = DefaultPort
    /\ rtspServer = NULL
    /\ input = [is_open |-> FALSE, buf |-> <<>>]
    /\ line = <<>>
    /\ url = <<>>
    /\ name = <<>>
    /\ sms = NoSession
    /\ lineNo = 0
    /\ trace = <<>>
    /\ exitStatus = "running"

Out(m) == [op |-> "out", msg |-> m]

Exit1 == [op |-> "exit", status |-> 1]

\* usage(), after the events pre: the usage message, then exit(1).
usage(pre) ==
    /\ trace' = trace \o pre \o <<Out("Usage"), Exit1>>
    /\ exitStatus' = "exit(1)"
    /\ pc' = "exited"

\* Lines 54-65: set-up, banner, and the first argument-count check.
Start ==
    /\ pc = "start"
    /\ IF argc < 2
       THEN usage(<<Out("RTSP Proxy Server")>>)
       ELSE /\ trace' = Append(trace, Out("RTSP Proxy Server"))
            /\ pc' = "options"
            /\ UNCHANGED exitStatus
    /\ UNCHANGED <<args, argv, argc, disk, verbosityLevel, rtspServerPortNum, rtspServer,
                   input, line, url, name, sms, lineNo>>

\* ++argv; --argc, n times.
Shift(n) ==
    /\ argv' = argv + n
    /\ argc' = argc - n

\* Lines 66-115: one pass of the option loop.
ParseOption ==
    /\ pc = "options"
    /\ UNCHANGED <<args, disk, rtspServer, input, line, url, name, sms, lineNo>>
    /\ IF ~(argc > 1) \/ CharAt(Arg(1), 0) # "-"
       THEN /\ pc' = "filearg"
            /\ UNCHANGED <<argv, argc, verbosityLevel, rtspServerPortNum, trace, exitStatus>>
       ELSE CASE CharAt(Arg(1), 1) = "v" ->
                   /\ verbosityLevel' = 1
                   /\ Shift(1)
                   /\ UNCHANGED <<pc, rtspServerPortNum, trace, exitStatus>>
              [] CharAt(Arg(1), 1) = "V" ->
                   /\ verbosityLevel' = 2
                   /\ Shift(1)
                   /\ UNCHANGED <<pc, rtspServerPortNum, trace, exitStatus>>
              [] CharAt(Arg(1), 1) = "p" ->
                   IF argc > 2 /\ CharAt(Arg(2), 0) # "-"
                   THEN LET r == sscanf_hu(Arg(2))
                            p == IF r.count = 1 THEN r.value ELSE rtspServerPortNum
                        IN  /\ rtspServerPortNum' = p
                            /\ IF r.count = 1 /\ p > 0
                               THEN /\ Shift(2)
                                    /\ UNCHANGED <<pc, trace, exitStatus>>
                               ELSE /\ usage(<<>>)
                                    /\ UNCHANGED <<argv, argc>>
                            /\ UNCHANGED verbosityLevel
                   ELSE /\ usage(<<>>)
                        /\ UNCHANGED <<argv, argc, verbosityLevel, rtspServerPortNum>>
              [] OTHER ->
                   /\ usage(<<>>)
                   /\ UNCHANGED <<argv, argc, verbosityLevel, rtspServerPortNum>>

\* CheckFileArg without the check of line 116.
CheckFileArgNoUsage ==
    /\ pc = "filearg"
    /\ pc' = "bind"
    /\ UNCHANGED <<args, argv, argc, disk, verbosityLevel, rtspServerPortNum, rtspServer,
                   input, line, url, name, sms, lineNo, trace, exitStatus>>

\* Lines 116-117: a file path must remain.
CheckFileArg ==
    /\ pc = "filearg"
    /\ IF argc < 2
       THEN usage(<<>>)
       ELSE /\ pc' = "bind"
            /\ UNCHANGED <<trace, exitStatus>>
    /\ UNCHANGED <<args, argv, argc, disk, verbosityLevel, rtspServerPortNum, rtspServer,
                   input, line, url, name, sms, lineNo>>

\* createRTSPServer(port), lines 36-39: the engine binds the port or fails.
createRTSPServer(port) == {NULL, Server(port)}

CreateServerEvent(port, server) ==
    [op |-> "createRTSPServer", port |-> port, ok |-> server # NULL]

\* Lines 122-123: the first attempt, on the configured port.
CreateServer ==
    /\ pc = "bind"
    /\ \E s \in createRTSPServer(rtspServerPortNum) :
         /\ rtspServer' = s
         /\ trace' = Append(trace, CreateServerEvent(rtspServerPortNum, s))
    /\ pc' = "fallback"
    /\ UNCHANGED <<args, argv, argc, disk, verbosityLevel, rtspServerPortNum, input, line,
                   url, name, sms, lineNo, exitStatus>>

\* Fallback retrying on the alternative port 8554 instead of 554.
FallbackOn8554 ==
    /\ pc = "fallback"
    /\ IF rtspServer = NULL /\ rtspServerPortNum # 554
       THEN \E s \in createRTSPServer(8554) :
              /\ rtspServerPortNum' = 8554
              /\ rtspServer' = s
              /\ trace' = trace \o <<Out("Unable to create a RTSP server with port number"),
                                     Out("Trying instead with the standard port numbers (554)"),
                                     CreateServerEvent(8554, s)>>
       ELSE UNCHANGED <<rtspServerPortNum, rtspServer, trace>>
    /\ pc' = "checkserver"
    /\ UNCHANGED <<args, argv, argc, disk, verbosityLevel, input, line, url, name, sms,
                   lineNo, exitStatus>>

\* Lines 124-134: the second attempt, on 554, when the first failed elsewhere.
Fallback ==
    /\ pc = "fallback"
    /\ IF rtspServer = NULL /\ rtspServerPortNum # 554
       THEN \E s \in createRTSPServer(554) :
              /\ rtspServerPortNum' = 554
              /\ rtspServer' = s
              /\ trace' = trace \o <<Out("Unable to create a RTSP server with port number"),
                                     Out("Trying instead with the standard port numbers (554)"),
                                     CreateServerEvent(554, s)>>
       ELSE UNCHANGED <<rtspServerPortNum, rtspServer, trace>>
    /\ pc' = "checkserver"
    /\ UNCHANGED <<args, argv, argc, disk, verbosityLevel, input, line, url, name, sms,
                   lineNo, exitStatus>>

\* CheckServer reporting the failure without the exit(1) of line 138.
CheckServerNoExit ==
    /\ pc = "checkserver"
    /\ trace' = IF rtspServer = NULL
                THEN Append(trace, Out("Failed to create RTSP server"))
                ELSE trace
    /\ pc' = "open"
    /\ UNCHANGED <<args, argv, argc, disk, verbosityLevel, rtspServerPortNum, rtspServer,
                   input, line, url, name, sms, lineNo, exitStatus>>

\* Lines 135-139: no server is fatal.
CheckServer ==
    /\ pc = "checkserver"
    /\ IF rtspServer = NULL
       THEN /\ trace' = trace \o <<Out("Failed to create RTSP server"), Exit1>>
            /\ exitStatus' = "exit(1)"
            /\ pc' = "exited"
       ELSE /\ pc' = "open"
            /\ UNCHANGED <<trace, exitStatus>>
    /\ UNCHANGED <<args, argv, argc, disk, verbosityLevel, rtspServerPortNum, rtspServer,
                   input, line, url, name, sms, lineNo>>

\* OpenFile treating a file that cannot be opened as fatal.
OpenFileOrExit ==
    /\ pc = "open"
    /\ IF ~disk.exists
       THEN /\ input' = [is_open |-> FALSE, buf |-> <<>>]
            /\ trace' = trace \o <<[op |-> "ifstream", path |-> Arg(1), ok |-> FALSE], Exit1>>
            /\ exitStatus' = "exit(1)"
            /\ pc' = "exited"
       ELSE /\ input' = [is_open |-> TRUE, buf |-> disk.content]
            /\ trace' = Append(trace, [op |-> "ifstream", path |-> Arg(1), ok |-> TRUE])
            /\ pc' = "getline"
            /\ UNCHANGED exitStatus
    /\ UNCHANGED <<args, argv, argc, disk, verbosityLevel, rtspServerPortNum, rtspServer,
                   line, url, name, sms, lineNo>>

\* Lines 142-144: open the definition file named by argv[1].
OpenFile ==
    /\ pc = "open"
    /\ IF ~disk.exists
       THEN /\ input' = [is_open |-> FALSE, buf |-> <<>>]
            /\ pc' = "eventloop"
       ELSE /\ input' = [is_open |-> TRUE, buf |-> disk.content]
            /\ pc' = "getline"
    /\ trace' = Append(trace, [op |-> "ifstream", path |-> Arg(1), ok |-> disk.exists])
    /\ UNCHANGED <<args, argv, argc, disk, verbosityLevel, rtspServerPortNum, rtspServer,
                   line, url, name, sms, lineNo, exitStatus>>

\* Lines 148 and 175: the next line, or the end of the file and input.close().
GetLine ==
    /\ pc = "getline"
    /\ IF input.buf = <<>>
       THEN /\ input' = [is_open |-> FALSE, buf |-> <<>>]
            /\ pc' = "eventloop"
            /\ UNCHANGED <<line, lineNo>>
       ELSE /\ line' = getlineLine(input.buf)
            /\ input' = [input EXCEPT !.buf = getlineRest(input.buf)]
            /\ lineNo' = lineNo + 1
            /\ pc' = "skipcheck"
    /\ UNCHANGED <<args, argv, argc, disk, verbosityLevel, rtspServerPortNum, rtspServer,
                   url, name, sms, trace, exitStatus>>

\* line.front(), line 150.  On an empty string the call has no defined
\* result: a library built with assertions aborts, another returns the
\* terminator.
front(l) == IF l = <<>> THEN {NUL, "abort"} ELSE {l[1]}

\* SkipCheck without the comment test of lines 150-153.
SkipCheckEmptyOnly ==
    /\ pc = "skipcheck"
    /\ pc' = IF line = <<>> THEN "getline" ELSE "split"
    /\ UNCHANGED <<args, argv, argc, disk, verbosityLevel, rtspServerPortNum, rtspServer,
                   input, line, url, name, sms, lineNo, trace, exitStatus>>

\* Lines 150-157: comment lines and empty lines are passed over.
SkipCheck ==
    /\ pc = "skipcheck"
    /\ \E c \in front(line) :
         IF c = "abort"
         THEN /\ trace' = Append(trace, [op |-> "abort"])
              /\ exitStatus' = "abort"
              /\ pc' = "exited"
         ELSE /\ pc' = IF c = "#" \/ line = <<>> THEN "getline" ELSE "split"
              /\ UNCHANGED <<trace, exitStatus>>
    /\ UNCHANGED <<args, argv, argc, disk, verbosityLevel, rtspServerPortNum, rtspServer,
                   input, line, url, name, sms, lineNo>>

\* The session ProxyServerMediaSession::createNew returns for its arguments.
Session(server, proxiedStreamURL, streamName) ==
    [server |-> server, url |-> proxiedStreamURL, name |-> streamName,
     verbosity |-> verbosityLevel, lineNo |-> lineNo]

\* Lines 158-166: split the line and create the proxy session.
CreateSession ==
    /\ pc = "split"
    /\ IF NameStart(line) > Len(line)
       THEN \* substr throws std::out_of_range, which nothing catches
            /\ trace' = Append(trace, [op |-> "abort"])
            /\ exitStatus' = "abort"
            /\ pc' = "exited"
            /\ UNCHANGED <<url, name, sms>>
       ELSE /\ url' = substr(line, 0, SeparatorPos(line))
            /\ name' = substr(line, NameStart(line), npos)
            /\ sms' = Session(rtspServer, line, name')
            /\ trace' = Append(trace, [op |-> "createNew", sms |-> sms'])
            /\ pc' = "add"
            /\ UNCHANGED exitStatus
    /\ UNCHANGED <<args, argv, argc, disk, verbosityLevel, rtspServerPortNum, rtspServer,
                   input, line, lineNo>>

\* Line 167: register the session with the server.
AddSession ==
    /\ pc = "add"
    /\ trace' = Append(trace, [op |-> "addServerMediaSession",
                               server |-> rtspServer, sms |-> sms])
    /\ pc' = "report"
    /\ UNCHANGED <<args, argv, argc, disk, verbosityLevel, rtspServerPortNum, rtspServer,
                   input, line, url, name, sms, lineNo, exitStatus>>

\* Report with the event loop entered from inside the loop body.
ReportThenEventLoop ==
    /\ pc = "report"
    /\ trace' = trace \o <<Out("RTSP stream, proxying the stream"),
                           Out("Play this stream using the URL")>>
    /\ pc' = "eventloop"
    /\ UNCHANGED <<args, argv, argc, disk, verbosityLevel, rtspServerPortNum, rtspServer,
                   input, line, url, name, sms, lineNo, exitStatus>>

\* Lines 169-172: report the source and the playback URL.
Report ==
    /\ pc = "report"
    /\ trace' = trace \o <<Out("RTSP stream, proxying the stream"),
                           Out("Play this stream using the URL")>>
    /\ pc' = "getline"
    /\ UNCHANGED <<args, argv, argc, disk, verbosityLevel, rtspServerPortNum, rtspServer,
                   input, line, url, name, sms, lineNo, exitStatus>>

\* Line 183: the event loop, which does not return.
EventLoop ==
    /\ pc = "eventloop"
    /\ trace' = Append(trace, [op |-> "doEventLoop"])
    /\ pc' = "serving"
    /\ UNCHANGED <<args, argv, argc, disk, verbosityLevel, rtspServerPortNum, rtspServer,
                   input, line, url, name, sms, lineNo, exitStatus>>

Next ==
    \/ Start
    \/ ParseOption
    \/ CheckFileArg
    \/ CreateServer
    \/ Fallback
    \/ CheckServer
    \/ OpenFile
    \/ GetLine
    \/ SkipCheck
    \/ CreateSession
    \/ AddSession
    \/ Report
    \/ EventLoop

Spec == Init /\ [][Next]_vars

-----------------------------------------------------------------------------
(* What the properties below speak about. *)

Events(op) == SelectSeq(trace, LAMBDA e : e.op = op)

Binds == Events("createRTSPServer")

Creates == Events("createNew")

Adds == Events("addServerMediaSession")

IsSessionCall(e) == e.op \in {"createNew", "addServerMediaSession"}

RECURSIVE LinesOf(_)
\* The lines of a file, as successive std::getline calls deliver them.
LinesOf(buf) ==
    IF buf = <<>> THEN <<>> ELSE <<getlineLine(buf)>> \o LinesOf(getlineRest(buf))

FileLines == LinesOf(disk.content)

IsWhitespace(c) == c \in {" ", "\t"}

HasWhitespace(l) == \E i \in 1..Len(l) : IsWhitespace(l[i])

FirstWhitespace(l) ==
    CHOOSE i \in 1..Len(l) : IsWhitespace(l[i]) /\ \A j \in 1..(i - 1) : ~IsWhitespace(l[j])

BeforeSeparator(l) == SubSeq(l, 1, FirstWhitespace(l) - 1)

AfterSeparator(l) == SubSeq(l, FirstWhitespace(l) + 1, Len(l))

\* A line the loader is to pass over: empty, or starting with '#'.
IsSkippedLine(l) == l = <<>> \/ l[1] = "#"

IsBlankLine(l) == \A i \in 1..Len(l) : IsWhitespace(l[i])

\* The numbers of the lines of the file that are not passed over, in file order.
NonSkippedLineNos ==
    SelectSeq([i \in 1..Len(FileLines) |-> i], LAMBDA i : ~IsSkippedLine(FileLines[i]))

LineNosOf(events) == [i \in 1..Len(events) |-> events[i].sms.lineNo]

\* The loader (lines 144-176) has run on an opened file and is done.
LoaderFinished == disk.exists /\ pc \in {"eventloop", "serving"}

\* Line k of the file has been read and the loop body has finished with it.
LineDone(k) ==
    \/ k < lineNo
    \/ k = lineNo /\ pc \in {"getline", "eventloop", "serving"}

BeforeBootstrapEnd == {"start", "options", "filearg", "bind", "fallback", "checkserver"}

IsDecimal(t) == t # <<>> /\ \A i \in 1..Len(t) : IsDigit(t[i])

RECURSIVE DecimalValue(_)
DecimalValue(t) ==
    IF t = <<>> THEN 0 ELSE 10 * DecimalValue(SubSeq(t, 1, Len(t) - 1)) + DigitVal(t[Len(t)])

IsFlag(t) == t # <<>> /\ t[1] = "-"

RECURSIVE AfterLeadingFlags(_)
\* What is left of an argument list once its leading flags (and the value
\* that follows a -p) are taken away.
AfterLeadingFlags(a) ==
    IF a = <<>> \/ ~IsFlag(a[1]) THEN a
    ELSE IF CharAt(a[1], 1) = "p" /\ Len(a) >= 2 /\ ~IsFlag(a[2])
         THEN AfterLeadingFlags(SubSeq(a, 3, Len(a)))
         ELSE AfterLeadingFlags(Tail(a))

NoFileToken == AfterLeadingFlags(Tail(args)) = <<>>

EndsInUsageExit ==
    /\ Len(trace) >= 2
    /\ trace[Len(trace) - 1] = Out("Usage")
    /\ trace[Len(trace)] = Exit1

-----------------------------------------------------------------------------
(* The claims. *)

\* C1: for every line that reaches session creation, is not blank and
\* contains a whitespace separator, the session is created with the text
\* before the first whitespace character as source URL and the text after
\* it as published name.
C1_SplitAtSeparator ==
    \A i \in 1..Len(trace) :
        (/\ trace[i].op = "createNew"
         /\ HasWhitespace(FileLines[trace[i].sms.lineNo])
         /\ ~IsBlankLine(FileLines[trace[i].sms.lineNo])) =>
            /\ trace[i].sms.url = BeforeSeparator(FileLines[trace[i].sms.lineNo])
            /\ trace[i].sms.name = AfterSeparator(FileLines[trace[i].sms.lineNo])

\* C2: every session creation is immediately followed by the registration
\* of that session and every registration immediately follows its creation;
\* sessions are created for non-skipped lines only, in strictly increasing
\* line order; and once the loader has finished, the registered sessions are
\* exactly the non-skipped lines of the file, in file order.
C2_RegisteredInFileOrder ==
    /\ \A i \in 1..Len(trace) :
          /\ trace[i].op = "createNew" /\ i < Len(trace) =>
                /\ trace[i + 1].op = "addServerMediaSession"
                /\ trace[i + 1].sms = trace[i].sms
          /\ trace[i].op = "addServerMediaSession" =>
                /\ i > 1
                /\ trace[i - 1].op = "createNew"
                /\ trace[i - 1].sms = trace[i].sms
    /\ \A i \in 1..Len(Creates) :
          /\ ~IsSkippedLine(FileLines[Creates[i].sms.lineNo])
          /\ i > 1 => Creates[i - 1].sms.lineNo < Creates[i].sms.lineNo
    /\ LoaderFinished => LineNosOf(Adds) = NonSkippedLineNos

C2_Witness ==
    /\ LoaderFinished
    /\ Len(Adds) = 2
    /\ Len(FileLines) = 3

\* C3: no session is created or registered for a line that is empty,
\* consists only of whitespace, or starts with '#'; so a file of such lines
\* only ends with no session registered.
C3_NoSessionForBlankOrComment ==
    /\ \A i \in 1..Len(trace) :
          IsSessionCall(trace[i]) =>
              /\ ~IsSkippedLine(FileLines[trace[i].sms.lineNo])
              /\ ~IsBlankLine(FileLines[trace[i].sms.lineNo])
    /\ (LoaderFinished /\ \A k \in 1..Len(FileLines) :
            IsSkippedLine(FileLines[k]) \/ IsBlankLine(FileLines[k])) => Adds = <<>>

\* C4 as stated: a line without whitespace separator that is not skipped
\* gets a session whose published name is the empty string.
C4_EmptyNameWithoutSeparator ==
    \A i \in 1..Len(trace) :
        (trace[i].op = "createNew" /\ ~HasWhitespace(FileLines[trace[i].sms.lineNo])) =>
            trace[i].sms.name = <<>>

\* C4 as amended: a non-skipped line without whitespace separator is not
\* rejected: once the loader is done with it, exactly one session has been
\* created and registered for it, the run has not been aborted over it, and
\* the published name of that session is the whole line.
C4_WholeLineNameWithoutSeparator ==
    /\ \A i \in 1..Len(trace) :
        (trace[i].op = "createNew" /\ ~HasWhitespace(FileLines[trace[i].sms.lineNo])) =>
            trace[i].sms.name = FileLines[trace[i].sms.lineNo]
    /\ \A k \in 1..lineNo :
        (~IsSkippedLine(FileLines[k]) /\ ~HasWhitespace(FileLines[k])) =>
            /\ LineDone(k) =>
                  /\ Cardinality({i \in 1..Len(Creates) : Creates[i].sms.lineNo = k}) = 1
                  /\ Cardinality({i \in 1..Len(Adds) : Adds[i].sms.lineNo = k}) = 1
            /\ k = lineNo => exitStatus = "running"

C4_Witness ==
    /\ lineNo >= 1
    /\ LineDone(lineNo)
    /\ ~IsSkippedLine(FileLines[lineNo])
    /\ ~HasWhitespace(FileLines[lineNo])
    /\ Len(Adds) >= 1

\* C5: when the first server creation fails on a port other than 554, a
\* second one is attempted on 554 after the diagnostic that announces it;
\* when that second attempt succeeds, the program never takes the exit(1)
\* path, the listen port is 554 and every session is created for and
\* registered with the server bound to 554.
C5_FallbackTo554 ==
    /\ (pc \notin {"start", "options", "filearg", "bind", "fallback"}
        /\ Len(Binds) >= 1 /\ ~Binds[1].ok /\ Binds[1].port # 554) =>
            /\ Len(Binds) = 2
            /\ Binds[2].port = 554
            /\ \E i \in 2..Len(trace) :
                  /\ trace[i] = Binds[2]
                  /\ trace[i - 1] = Out("Trying instead with the standard port numbers (554)")
                  /\ \A j \in 1..(i - 1) :
                        trace[j].op = "createRTSPServer" => trace[j] = Binds[1]
    /\ (Len(Binds) = 2 /\ Binds[2].ok) =>
            /\ exitStatus # "exit(1)"
            /\ pc \notin {"start", "options", "filearg", "bind", "fallback"}
            /\ rtspServerPortNum = 554
            /\ rtspServer = Server(554)
            /\ \A i \in 1..Len(trace) :
                  /\ trace[i].op = "createNew" => trace[i].sms.server = Server(554)
                  /\ trace[i].op = "addServerMediaSession" => trace[i].server = Server(554)

C5_Witness ==
    /\ Len(Binds) = 2
    /\ Binds[1].port = 7
    /\ Binds[2].ok
    /\ Len(Adds) >= 1
    /\ pc = "serving"

C7_MissingFileIsUsageError ==
    NoFileToken =>
        /\ pc \in {"start", "options", "filearg", "exited"}
        /\ \A i \in 1..Len(trace) : trace[i].op \in {"out", "exit"}
        /\ pc = "exited" => exitStatus = "exit(1)" /\ EndsInUsageExit
        /\ pc # "exited" => exitStatus = "running" /\ ENABLED Next

C7_Witness ==
    /\ NoFileToken
    /\ Len(args) = 3
    /\ argv = 2
    /\ pc = "exited"
    /\ EndsInUsageExit

\* C8: a -p option is accepted exactly when the token after it is a number
\* greater than 0, and then (up to 65535) the listen port becomes that
\* number; otherwise the program ends through usage() and exit(1).
C8_PortOptionStep ==
    (pc = "options" /\ argc > 1 /\ IsFlag(Arg(1)) /\ CharAt(Arg(1), 1) = "p") =>
        IF argc > 2 /\ IsDecimal(Arg(2)) /\ DecimalValue(Arg(2)) > 0
        THEN /\ exitStatus' = "running"
             /\ pc' = "options"
             /\ DecimalValue(Arg(2)) <= 65535 => rtspServerPortNum' = DecimalValue(Arg(2))
        ELSE /\ exitStatus' = "exit(1)"
             /\ pc' = "exited"

C8_PortOption == [][C8_PortOptionStep]_vars

\* C9: when the definition file cannot be opened, no session is created or
\* registered; once a server exists the program does not exit, goes from
\* the failed open straight to the event loop, and serves with no session.
C9_UnopenableFileIsNotFatal ==
    ~disk.exists =>
        /\ \A i \in 1..Len(trace) : ~IsSessionCall(trace[i])
        /\ (pc \notin BeforeBootstrapEnd /\ rtspServer.bound) =>
              /\ exitStatus = "running"
              /\ pc \in {"open", "eventloop", "serving"}
              /\ pc # "serving" => ENABLED Next
              /\ pc = "serving" => trace[Len(trace)].op = "doEventLoop"

C9_Witness ==
    /\ ~disk.exists
    /\ pc = "serving"
    /\ trace[Len(trace) - 1] = [op |-> "ifstream", path |-> <<"f">>, ok |-> FALSE]

\* C10: the event loop is entered at most once and is the last thing the
\* program does; it is entered only without any usage error or exit, with a
\* server created, the file closed and every non-skipped line registered;
\* all server creations come before the file is opened and all session
\* calls after; a run that took exit(1) never enters the event loop.
C10_PhasesInOrder ==
    /\ Len(Events("doEventLoop")) <= 1
    /\ \A i \in 1..Len(trace) :
          trace[i].op = "doEventLoop" =>
              /\ i = Len(trace)
              /\ pc = "serving"
              /\ exitStatus = "running"
              /\ rtspServer.bound
              /\ \E j \in 1..(i - 1) : trace[j].op = "createRTSPServer" /\ trace[j].ok
              /\ \E j \in 1..(i - 1) : trace[j].op = "ifstream"
              /\ \A j \in 1..i : trace[j] # Out("Usage") /\ trace[j].op # "exit"
              /\ ~input.is_open
              /\ disk.exists => LineNosOf(Adds) = NonSkippedLineNos
    /\ \A i, j \in 1..Len(trace) :
          /\ (trace[i].op = "createRTSPServer" /\ trace[j].op = "ifstream") => i < j
          /\ (trace[i].op = "ifstream" /\ IsSessionCall(trace[j])) => i < j
          /\ (trace[i] = Out("Usage") /\ trace[j].op # "out") => i < j
    /\ Len(Events("ifstream")) <= 1
    /\ exitStatus # "running" => Events("doEventLoop") = <<>>

C10_Witness ==
    /\ pc = "serving"
    /\ Len(Binds) = 2
    /\ Len(Adds) = 2

====
